---- MODULE Spec2Model ----
(***************************************************************************)
(* Call session controller of agent-app (src/agent-app/src/app/page.tsx).  *)
(*                                                                         *)
(* The component state (useState hooks), the two timer refs and the set of *)
(* browser timers that are scheduled and have not fired.  A timer callback *)
(* is a closure: it runs with the values of the render in which the        *)
(* handler that scheduled it was created, so every pending timer carries   *)
(* the captured values (env) next to what it will do.  Timers fire in any  *)
(* order that their delays allow.                                          *)
(***************************************************************************)
EXTENDS Integers, Sequences, FiniteSets, TLC

\* ---------------------------------------------------------------- bounds
MaxInputs == 6      \* user inputs (clicks, edits) followed in one behaviour
MaxClock  == 2      \* distinct readings of Date.now()
MaxLateInputs == 8  \* user inputs followed when the user steps in late

\* ------------------------------------------------------------- constants
ScriptLen == 7      \* buildScript returns seven steps

NoTimer == 0        \* a ref holding null
NoUtterance == 0    \* the speech synthesis has nothing to speak
Null    == 0        \* callStartedAt / callEndedAt holding null

CallStates == {"idle", "dialing", "in-progress", "completed"}

\* user input drawn for the customer-name field
CustomerNames == {"Jordan Wells", "Sam"}

\* user input drawn for the reply textarea: sequences of characters
Drafts == { <<>>, <<" ">>, <<"a">>, <<" ", "b", " ">> }

VARIABLES
    callState,          \* useState<CallState>("idle")
    messages,           \* useState<Message[]>([])
    currentStep,        \* useState(0)
    autoRespond,        \* useState(true)
    customerDraft,      \* useState("")
    awaitingResponse,   \* useState(false)
    callStartedAt,      \* useState<number | null>(null)
    callEndedAt,        \* useState<number | null>(null)
    customerName,       \* useState("Jordan Wells")
    voiceEnabled,       \* useState(true)
    utterance,          \* window.speechSynthesis: the position in the
                        \* transcript of the line it is speaking, or none
    agentTimer,         \* useRef: handle last stored in agentTimer.current
    customerTimer,      \* useRef: handle last stored in customerTimer.current
    timers,             \* timers scheduled with setTimeout and not yet fired
    clock,              \* Date.now()
    inputs,             \* number of user inputs so far
    args,               \* arguments of a helper function applied on its own
    result,             \* what the helper function returned
    applied             \* the helper function has returned

\* the state of the component: everything but the input count
state == << callState, messages, currentStep, autoRespond, customerDraft,
            awaitingResponse, callStartedAt, callEndedAt, customerName,
            voiceEnabled, utterance, agentTimer, customerTimer, timers, clock >>

vars == << callState, messages, currentStep, autoRespond, customerDraft,
           awaitingResponse, callStartedAt, callEndedAt, customerName,
           voiceEnabled, utterance, agentTimer, customerTimer, timers, clock,
           inputs, args, result, applied >>

\* a helper function (deriveHighlights, deriveFocusPoints, personalise)
\* applied on its own; the call session does not touch it
pure == << args, result, applied >>

\* ------------------------------------------------------- pure functions

\* String.prototype.trim on a sequence of characters
RECURSIVE TrimLeft(_)
TrimLeft(s) ==
    IF s # <<>> /\ Head(s) = " " THEN TrimLeft(Tail(s)) ELSE s

RECURSIVE TrimRight(_)
TrimRight(s) ==
    IF s # <<>> /\ s[Len(s)] = " " THEN TrimRight(SubSeq(s, 1, Len(s) - 1)) ELSE s

\* a trim that forgets the trailing whitespace
TrimLeadingOnly(s) == TrimLeft(s)

\* no trim at all
TrimNothing(s) == s

Trim(s) == TrimRight(TrimLeft(s))

\* script[stepIndex] of buildScript: stepIndex is 0-based; the last step has
\* no customer line, an index past the end gives undefined
HasStep(stepIndex) == stepIndex >= 0 /\ stepIndex < ScriptLen

\* a script whose last step has a customer line too
StepHasCustomerAlways(stepIndex) == HasStep(stepIndex)

StepHasCustomer(stepIndex) == HasStep(stepIndex) /\ stepIndex < ScriptLen - 1

\* templates of buildScript that contain the {customer} token
AgentUsesCustomer(stepIndex) == stepIndex = 0 \/ stepIndex = ScriptLen - 1

\* personalise(step.agent, scenario): the line of the step with the tokens
\* replaced; the text is kept as (template, substituted customer name)
AgentLineText(stepIndex, name) ==
    [tpl |-> "agent", step |-> stepIndex,
     customer |-> IF AgentUsesCustomer(stepIndex) THEN name ELSE "",
     typed |-> <<>>]

\* personalise(step.customer ?? "", scenario): no customer template holds
\* the {customer} token
CustomerLineText(stepIndex, name) ==
    [tpl |-> "customer", step |-> stepIndex, customer |-> "", typed |-> <<>>]

TypedText(text) ==
    [tpl |-> "typed", step |-> 0, customer |-> "", typed |-> text]

DialingText(name) ==
    [tpl |-> "Dialing", step |-> 0, customer |-> name, typed |-> <<>>]

ConnectedText ==
    [tpl |-> "Call connected", step |-> 0, customer |-> "", typed |-> <<>>]

HangUpText ==
    [tpl |-> "Call ended manually", step |-> 0, customer |-> "", typed |-> <<>>]

DefaultClosingText(name) ==
    [tpl |-> "Thanks for your time today", step |-> 0, customer |-> name,
     typed |-> <<>>]

WrapUpReasonText ==
    [tpl |-> "Understood", step |-> 0, customer |-> "", typed |-> <<>>]

\* createMessage(role, text, meta); meta "" stands for undefined.  The id
\* (random) and the timestamp are not part of the model.
createMessage(role, text, meta) == [role |-> role, text |-> text, meta |-> meta]

StageMeta(stepIndex) == << "Stage", stepIndex + 1 >>
WrapUpMeta == << "Wrap-up", 0 >>
StatusMeta == << "Status", 0 >>
DisconnectedMeta == << "Disconnected", 0 >>
NoMeta == << "", 0 >>

\* ----------------------------------------------------------------- strings
\* A string is a sequence of characters.  The four characters outside
\* ASCII that the texts use are written by name: LDQUO and RDQUO (double
\* quotation marks), HELLIP (ellipsis), MDASH (em dash); so is the grave
\* accent, BACKTICK.

UpperLetters ==
    << "A", "B", "C", "D", "E", "F", "G", "H", "I", "J", "K", "L", "M",
       "N", "O", "P", "Q", "R", "S", "T", "U", "V", "W", "X", "Y", "Z" >>

LowerLetters ==
    << "a", "b", "c", "d", "e", "f", "g", "h", "i", "j", "k", "l", "m",
       "n", "o", "p", "q", "r", "s", "t", "u", "v", "w", "x", "y", "z" >>

Digits == { "0", "1", "2", "3", "4", "5", "6", "7", "8", "9" }

\* the i flag of a regular expression: letters compare by their lower case
ToLower(c) ==
    IF \E i \in DOMAIN UpperLetters : UpperLetters[i] = c
    THEN LowerLetters[CHOOSE i \in DOMAIN UpperLetters : UpperLetters[i] = c]
    ELSE c

LowerCase(s) == [i \in 1 .. Len(s) |-> ToLower(s[i])]

\* \w of a regular expression
IsWordChar(c) ==
    \/ \E i \in DOMAIN UpperLetters : UpperLetters[i] = c \/ LowerLetters[i] = c
    \/ c \in Digits
    \/ c = "_"

\* w occurs in s at position i
StartsAt(s, i, w) ==
    /\ i >= 1
    /\ i + Len(w) - 1 <= Len(s)
    /\ SubSeq(s, i, i + Len(w) - 1) = w

Includes(s, w) == \E i \in 1 .. Len(s) : StartsAt(s, i, w)

\* RegExp.prototype.test of an alternation of literal words with the i flag
TestAny(words, text) == \E w \in words : Includes(LowerCase(text), w)

Min(a, b) == IF a <= b THEN a ELSE b

\* String.prototype.slice(0, n)
SliceTo(s, n) == SubSeq(s, 1, Min(n, Len(s)))

\* Array.prototype.slice(0, n)
Take(seq, n) == SubSeq(seq, 1, Min(n, Len(seq)))

\* Set.prototype.add followed by Array.from: insertion order, no repeats
SetAdd(seq, x) ==
    IF \E i \in 1 .. Len(seq) : seq[i] = x THEN seq ELSE Append(seq, x)

\* ------------------------------------------------------ deriveHighlights
\* the text before ${scenario.customerName} in the first placeholder
PersonalisedPrefix ==
    << "P", "e", "r", "s", "o", "n", "a", "l", "i", "s", "e", "d", " ", "r",
       "e", "a", "d", "y", "-", "t", "o", "-", "d", "i", "a", "l", " ", "s",
       "c", "r", "i", "p", "t", " ", "f", "o", "r", " " >>

\* "Auto-generated coaching cues for every stage."
CoachingCues ==
    << "A", "u", "t", "o", "-", "g", "e", "n", "e", "r", "a", "t", "e", "d",
       " ", "c", "o", "a", "c", "h", "i", "n", "g", " ", "c", "u", "e", "s",
       " ", "f", "o", "r", " ", "e", "v", "e", "r", "y", " ", "s", "t", "a",
       "g", "e", "." >>

\* "Toggle between auto-pilot and manual customer role-play."
ToggleModes ==
    << "T", "o", "g", "g", "l", "e", " ", "b", "e", "t", "w", "e", "e", "n",
       " ", "a", "u", "t", "o", "-", "p", "i", "l", "o", "t", " ", "a", "n",
       "d", " ", "m", "a", "n", "u", "a", "l", " ", "c", "u", "s", "t", "o",
       "m", "e", "r", " ", "r", "o", "l", "e", "-", "p", "l", "a", "y", "." >>

\* "Follow-up appointment locked with customer approval."
BookingHighlight ==
    << "F", "o", "l", "l", "o", "w", "-", "u", "p", " ", "a", "p", "p", "o",
       "i", "n", "t", "m", "e", "n", "t", " ", "l", "o", "c", "k", "e", "d",
       " ", "w", "i", "t", "h", " ", "c", "u", "s", "t", "o", "m", "e", "r",
       " ", "a", "p", "p", "r", "o", "v", "a", "l", "." >>

\* "Agent communicated diagnostic results with clarity."
DiagnosticsHighlight ==
    << "A", "g", "e", "n", "t", " ", "c", "o", "m", "m", "u", "n", "i", "c",
       "a", "t", "e", "d", " ", "d", "i", "a", "g", "n", "o", "s", "t", "i",
       "c", " ", "r", "e", "s", "u", "l", "t", "s", " ", "w", "i", "t", "h",
       " ", "c", "l", "a", "r", "i", "t", "y", "." >>

\* "Conversation in progress MDASH transcript capturing live context."
InProgressHighlight ==
    << "C", "o", "n", "v", "e", "r", "s", "a", "t", "i", "o", "n", " ", "i",
       "n", " ", "p", "r", "o", "g", "r", "e", "s", "s", " ", "MDASH", " ",
       "t", "r", "a", "n", "s", "c", "r", "i", "p", "t", " ", "c", "a", "p",
       "t", "u", "r", "i", "n", "g", " ", "l", "i", "v", "e", " ", "c", "o",
       "n", "t", "e", "x", "t", "." >>

\* "Customer responded: LDQUO"
CustomerRespondedPrefix ==
    << "C", "u", "s", "t", "o", "m", "e", "r", " ", "r", "e", "s", "p", "o",
       "n", "d", "e", "d", ":", " ", "LDQUO" >>

\* /locked in|scheduled|confirmed/i
BookingWords ==
    { << "l", "o", "c", "k", "e", "d", " ", "i", "n" >>,
      << "s", "c", "h", "e", "d", "u", "l", "e", "d" >>,
      << "c", "o", "n", "f", "i", "r", "m", "e", "d" >> }

\* /diagnostic|health check|results are in/i
DiagnosticWords ==
    { << "d", "i", "a", "g", "n", "o", "s", "t", "i", "c" >>,
      << "h", "e", "a", "l", "t", "h", " ", "c", "h", "e", "c", "k" >>,
      << "r", "e", "s", "u", "l", "t", "s", " ", "a", "r", "e", " ", "i", "n" >> }

HighlightLimit == 70    \* lastCustomer.text.slice(0, 70)

\* the placeholders in another order
PlaceholderHighlightsSwapped(name) ==
    << CoachingCues, PersonalisedPrefix \o name \o << "." >>, ToggleModes >>

\* the highlights of an empty transcript
PlaceholderHighlights(name) ==
    << PersonalisedPrefix \o name \o << "." >>, CoachingCues, ToggleModes >>

\* the highlight that quotes the last customer message
CustomerHighlight(text) ==
    CustomerRespondedPrefix \o SliceTo(text, HighlightLimit)
        \o (IF Len(text) > HighlightLimit THEN << "HELLIP" >> ELSE <<>>)
        \o << "RDQUO" >>

\* deriveHighlights(messages, scenario); of the scenario only customerName
\* is read
deriveHighlights(msgs, name) ==
    IF Len(msgs) = 0
    THEN PlaceholderHighlights(name)
    ELSE LET agentLines == SelectSeq(msgs, LAMBDA m : m.role = "agent")
             customerLines == SelectSeq(msgs, LAMBDA m : m.role = "customer")
             bookingConfirmed ==
                 \E i \in 1 .. Len(agentLines) : TestAny(BookingWords, agentLines[i].text)
             found == { i \in 1 .. Len(agentLines) :
                           TestAny(DiagnosticWords, agentLines[i].text) }
             diagnostics ==
                 IF found = {} THEN <<>>
                 ELSE agentLines[CHOOSE i \in found : \A j \in found : i <= j].text
             h1 == IF bookingConfirmed THEN SetAdd(<<>>, BookingHighlight) ELSE <<>>
             h2 == IF diagnostics # <<>> THEN SetAdd(h1, DiagnosticsHighlight) ELSE h1
             h3 == IF Len(customerLines) > 0
                   THEN SetAdd(h2, CustomerHighlight(customerLines[Len(customerLines)].text))
                   ELSE h2
         IN  IF Len(h3) = 0 THEN SetAdd(h3, InProgressHighlight) ELSE h3

\* ----------------------------------------------------- deriveFocusPoints
\* "your recent solar production"
FocusDefault1 ==
    << "y", "o", "u", "r", " ", "r", "e", "c", "e", "n", "t", " ", "s", "o",
       "l", "a", "r", " ", "p", "r", "o", "d", "u", "c", "t", "i", "o", "n" >>

\* "the array's health check"
FocusDefault2 ==
    << "t", "h", "e", " ", "a", "r", "r", "a", "y", "'", "s", " ", "h", "e",
       "a", "l", "t", "h", " ", "c", "h", "e", "c", "k" >>

\* "booking the next technician slot"
FocusDefault3 ==
    << "b", "o", "o", "k", "i", "n", "g", " ", "t", "h", "e", " ", "n", "e",
       "x", "t", " ", "t", "e", "c", "h", "n", "i", "c", "i", "a", "n", " ",
       "s", "l", "o", "t" >>

FocusDefaults == << FocusDefault1, FocusDefault2, FocusDefault3 >>

FocusMinLength == 8     \* filter((part) => part.length > 8)
FocusCount == 3         \* slice(0, 3)

\* a character class that takes the comma for a terminator too
IsTerminatorOrComma(c) == c \in { ".", "?", "!", "," }

\* [.?!]
IsTerminator(c) == c \in { ".", "?", "!" }

\* the length of the match of /[.?!]/ at position i of s, 0 without a match
SentenceSepAt(s, i) == IF IsTerminator(s[i]) THEN 1 ELSE 0

\* the length of the match of /,|;|\band\b/gi at position i of s, 0 without
\* a match: \b holds between a word character and what is none
PhraseSepAt(s, i) ==
    IF s[i] \in { ",", ";" } THEN 1
    ELSE IF /\ i + 2 <= Len(s)
            /\ << ToLower(s[i]), ToLower(s[i + 1]), ToLower(s[i + 2]) >> = << "a", "n", "d" >>
            /\ (i = 1 \/ ~IsWordChar(s[i - 1]))
            /\ (i + 3 > Len(s) \/ ~IsWordChar(s[i + 3]))
         THEN 3
         ELSE 0

SepAt(kind, s, i) ==
    IF kind = "sentence" THEN SentenceSepAt(s, i) ELSE PhraseSepAt(s, i)

\* the positions of s at which a match begins; a match is one character or
\* the word 'and', so no two matches overlap
Matches(kind, s) == { i \in 1 .. Len(s) : SepAt(kind, s, i) > 0 }

\* the k-th smallest element of a set of numbers
Nth(set, k) == CHOOSE i \in set : Cardinality({ j \in set : j < i }) = k - 1

\* String.prototype.split by a regular expression: what lies before the
\* first match, between two matches and after the last
Split(kind, s) ==
    LET ms == Matches(kind, s)
        n == Cardinality(ms)
        from(k) == IF k = 1 THEN 1
                   ELSE Nth(ms, k - 1) + SepAt(kind, s, Nth(ms, k - 1))
        to(k) == IF k = n + 1 THEN Len(s) ELSE Nth(ms, k) - 1
    IN  [k \in 1 .. n + 1 |-> SubSeq(s, from(k), to(k))]

\* map((part) => part.trim())
MapTrim(parts) == [i \in 1 .. Len(parts) |-> Trim(parts[i])]

\* a filter that keeps parts of four characters
LongEnoughFrom4(part) == Len(part) >= 4

\* (part) => part.length > 8
LongEnough(part) == Len(part) > FocusMinLength

\* goal.split(/[.?!]/).map(trim).filter(length > 8)
Sentences(goal) == SelectSeq(MapTrim(Split("sentence", goal)), LongEnough)

\* goal.split(/,|;|\band\b/gi).map(trim)
Phrases(goal) == MapTrim(Split("phrase", goal))

deriveFocusPoints(goal) ==
    LET sentences == Sentences(goal)
        cleaned == SelectSeq(Phrases(goal), LongEnough)
        merged == sentences \o cleaned \o FocusDefaults
    IN  IF Len(sentences) >= 2
        THEN Take(sentences, FocusCount)
        ELSE Take(merged, FocusCount)

\* ------------------------------------------------------------ personalise
\* "{agent}"
AgentToken ==
    << "{", "a", "g", "e", "n", "t", "}" >>

\* "{customer}"
CustomerToken ==
    << "{", "c", "u", "s", "t", "o", "m", "e", "r", "}" >>

\* "{company}"
CompanyToken ==
    << "{", "c", "o", "m", "p", "a", "n", "y", "}" >>

\* "{goal}"
GoalToken ==
    << "{", "g", "o", "a", "l", "}" >>

RECURSIVE Concat(_)
Concat(parts) == IF parts = <<>> THEN <<>> ELSE Head(parts) \o Concat(Tail(parts))

\* GetSubstitution of String.prototype.replaceAll for a search string and a
\* replacement string: in the replacement $$ stands for a dollar sign, $&
\* for the match, $ BACKTICK for the text before the match and $ with an
\* apostrophe for the text after it; any other character stands for itself
RECURSIVE GetSubstitution(_, _, _, _)
GetSubstitution(matched, before, after, replacement) ==
    IF replacement = <<>> THEN <<>>
    ELSE IF /\ Len(replacement) >= 2
            /\ replacement[1] = "$"
            /\ replacement[2] \in { "$", "&", "BACKTICK", "'" }
         THEN ( CASE replacement[2] = "$" -> << "$" >>
                  [] replacement[2] = "&" -> matched
                  [] replacement[2] = "BACKTICK" -> before
                  [] replacement[2] = "'" -> after )
                  \o GetSubstitution(matched, before, after,
                                     SubSeq(replacement, 3, Len(replacement)))
         ELSE << replacement[1] >>
                  \o GetSubstitution(matched, before, after, Tail(replacement))

\* String.prototype.replaceAll(token, replacement): a token begins with the
\* only brace it opens, so no two occurrences overlap
ReplaceAll(s, token, replacement) ==
    LET ms == { i \in 1 .. Len(s) : StartsAt(s, i, token) }
        n == Cardinality(ms)
        from(k) == IF k = 1 THEN 1 ELSE Nth(ms, k - 1) + Len(token)
        to(k) == IF k = n + 1 THEN Len(s) ELSE Nth(ms, k) - 1
        sub(k) == GetSubstitution(token,
                                  SubSeq(s, 1, Nth(ms, k) - 1),
                                  SubSeq(s, Nth(ms, k) + Len(token), Len(s)),
                                  replacement)
        part(k) == SubSeq(s, from(k), to(k)) \o (IF k <= n THEN sub(k) ELSE <<>>)
    IN  Concat([k \in 1 .. n + 1 |-> part(k)])

personalise(input, scenario) ==
    ReplaceAll(
        ReplaceAll(
            ReplaceAll(
                ReplaceAll(input, AgentToken, scenario.agentName),
                CustomerToken, scenario.customerName),
            CompanyToken, scenario.companyName),
        GoalToken, scenario.goal)

\* ----------------------------------------------------------- timer store

Max(a, b) == IF a >= b THEN a ELSE b

TimerIds == 1 .. (Max(MaxInputs, MaxLateInputs) + 3)

PendingIds(ts) == { t.id : t \in ts }

\* the handle setTimeout returns: one that no pending timer and no ref holds
FreshId(ts, a, c) ==
    CHOOSE i \in TimerIds :
        /\ i \notin PendingIds(ts) \cup {a, c}
        /\ \A j \in TimerIds : j < i => j \in PendingIds(ts) \cup {a, c}

\* the values a callback created in the current render closes over
CurrentEnv ==
    [autoRespond |-> autoRespond, callState |-> callState,
     customerName |-> customerName, voiceEnabled |-> voiceEnabled]

\* setTimeout delays, as << min, max >> of randomBetween, in units of 100 ms
ConnectDelay  == << 9, 14 >>    \* handleStartCall: randomBetween(900, 1400)
CustomerDelay == << 9, 15 >>    \* deliverAgentLine: randomBetween(900, 1500)
NextLineDelay == << 13, 22 >>   \* customer callback: randomBetween(1300, 2200)
ReplyDelay    == << 10, 18 >>   \* handleCustomerSubmit: randomBetween(1000, 1800)
EndDelay      == << 16, 16 >>   \* deliverAgentLine: 1600

\* A pending timer t knows how long it has been waiting at least (t.waited)
\* and, for every timer u that was already pending when t was scheduled, how
\* long u had been waiting at least at that moment (t.gap[u.id]).
IsOlder(t, u) == t.id \in DOMAIN u.gap     \* t was scheduled before u

\* forget the timers that are no longer pending
Restrict(ts) ==
    { [t EXCEPT !.gap = [i \in (DOMAIN t.gap) \cap PendingIds(ts) |-> t.gap[i]]] : t \in ts }

\* setTimeout(callback, delay) called while the timers ts are pending
NewTimer(ts, a, c, kind, step, env, delay) ==
    [id |-> FreshId(ts, a, c), kind |-> kind, step |-> step, env |-> env,
     lo |-> delay[1], hi |-> delay[2], waited |-> 0,
     gap |-> [i \in PendingIds(ts) |-> (CHOOSE t \in ts : t.id = i).waited]]

\* the timers left pending when u fires: u waited for at least u.lo, so a
\* timer scheduled before u waited for at least that plus its head start
Elapse(ts, u) ==
    LET rest == ts \ {u}
        w1(t) == IF IsOlder(t, u) THEN Max(t.waited, u.gap[t.id] + u.lo) ELSE t.waited
        w2(t) == LET younger == { y \in rest : IsOlder(t, y) }
                     via == { y.gap[t.id] + w1(y) : y \in younger }
                 IN  IF via = {} THEN w1(t)
                     ELSE Max(w1(t), CHOOSE m \in via : \A n \in via : m >= n)
    IN  Restrict({ [t EXCEPT !.waited = w2(t)] : t \in rest })

\* u can be the next timer to fire: no other pending timer is overdue then
CanFire(ts, u) == \A t \in Elapse(ts, u) : t.waited <= t.hi

\* clearTimers: clearTimeout on both refs
ClearedTimers(ts, a, c) == Restrict({ t \in ts : t.id # a /\ t.id # c })


\* ------------------------------------------------------------------ Init
InitSession ==
    /\ callState = "idle"
    /\ messages = <<>>
    /\ currentStep = 0
    /\ autoRespond = TRUE
    /\ customerDraft = <<>>
    /\ awaitingResponse = FALSE
    /\ callStartedAt = Null
    /\ callEndedAt = Null
    /\ customerName = "Jordan Wells"
    /\ voiceEnabled = TRUE
    /\ utterance = NoUtterance
    /\ agentTimer = NoTimer
    /\ customerTimer = NoTimer
    /\ timers = {}
    /\ clock = 1
    /\ inputs = 0

NoArgs == [fn |-> "none"]

Init ==
    /\ InitSession
    /\ args = NoArgs
    /\ result = <<>>
    /\ applied = FALSE

\* --------------------------------------------------- handler operations

\* speak(text) of the render described by env, for the line that becomes
\* message number pos of the transcript: with the voice of that render off
\* nothing happens, else the synthesis drops what it speaks and takes the
\* new line
speak(env, pos) ==
    utterance' = IF env.voiceEnabled THEN pos ELSE utterance

\* endCall(reason) of the render described by env, run when the pending
\* timers are ts.  The guard reads the callState the closure captured.
endCall(env, closing, ts) ==
    IF env.callState = "completed"
    THEN /\ timers' = ts
         /\ UNCHANGED << agentTimer, customerTimer, messages, callState,
                         awaitingResponse, callEndedAt, utterance >>
    ELSE /\ timers' = ClearedTimers(ts, agentTimer, customerTimer)
         /\ agentTimer' = NoTimer
         /\ customerTimer' = NoTimer
         /\ messages' = Append(messages, createMessage("agent", closing, WrapUpMeta))
         /\ speak(env, Len(messages) + 1)
         /\ callState' = "completed"
         /\ awaitingResponse' = FALSE
         /\ callEndedAt' = clock

\* deliverAgentLine(stepIndex) of the render described by env, run when the
\* pending timers are ts and the transcript is msgs; callState is left to
\* the caller when the step exists.
deliverAgentLine(stepIndex, env, ts, msgs) ==
    IF ~HasStep(stepIndex)
    THEN /\ endCall(env, DefaultClosingText(env.customerName), ts)
         /\ UNCHANGED currentStep
    ELSE LET agentLine == AgentLineText(stepIndex, env.customerName)
             expectsResponse == StepHasCustomer(stepIndex)
             endTimer == NewTimer(ts, agentTimer, customerTimer, "end", stepIndex, env, EndDelay)
             replyTimer == NewTimer(ts, agentTimer, customerTimer, "customer", stepIndex, env, CustomerDelay)
         IN  /\ messages' = Append(msgs, createMessage("agent", agentLine, StageMeta(stepIndex)))
             /\ currentStep' = stepIndex
             /\ awaitingResponse' = (expectsResponse /\ ~env.autoRespond)
             /\ speak(env, Len(msgs) + 1)
             /\ callEndedAt' = callEndedAt
             /\ IF ~expectsResponse
                THEN /\ agentTimer' = endTimer.id
                     /\ customerTimer' = customerTimer
                     /\ timers' = ts \cup {endTimer}
                ELSE IF env.autoRespond
                THEN /\ customerTimer' = replyTimer.id
                     /\ agentTimer' = agentTimer
                     /\ timers' = ts \cup {replyTimer}
                ELSE /\ timers' = ts
                     /\ UNCHANGED << agentTimer, customerTimer >>

\* --------------------------------------------------------- user actions

\* a start that resets currentStep to 'no step yet'
handleStartCallNoStep ==
    /\ callState \in {"idle", "completed"}
    /\ LET ts == ClearedTimers(timers, agentTimer, customerTimer)
           connectTimer == NewTimer(ts, NoTimer, NoTimer, "connect", 0, CurrentEnv, ConnectDelay)
       IN  /\ timers' = ts \cup {connectTimer}
           /\ agentTimer' = connectTimer.id
           /\ customerTimer' = NoTimer
    /\ messages' = << createMessage("system", DialingText(customerName), StatusMeta) >>
    /\ currentStep' = -1
    /\ callState' = "dialing"
    /\ awaitingResponse' = FALSE
    /\ callStartedAt' = clock
    /\ callEndedAt' = Null
    /\ customerDraft' = <<>>
    /\ utterance' = NoUtterance
    /\ UNCHANGED << autoRespond, customerName, voiceEnabled, clock >>

\* Launch / Restart button (disabled while dialing or in-progress):
\* handleStartCall = resetCall, then the dialing state and the connect timer
handleStartCall ==
    /\ callState \in {"idle", "completed"}
    /\ LET ts == ClearedTimers(timers, agentTimer, customerTimer)
           connectTimer == NewTimer(ts, NoTimer, NoTimer, "connect", 0, CurrentEnv, ConnectDelay)
       IN  /\ timers' = ts \cup {connectTimer}
           /\ agentTimer' = connectTimer.id
           /\ customerTimer' = NoTimer
    /\ messages' = << createMessage("system", DialingText(customerName), StatusMeta) >>
    /\ currentStep' = 0
    /\ callState' = "dialing"
    /\ awaitingResponse' = FALSE
    /\ callStartedAt' = clock
    /\ callEndedAt' = Null
    /\ customerDraft' = <<>>
    /\ utterance' = NoUtterance
    /\ UNCHANGED << autoRespond, customerName, voiceEnabled, clock >>

\* Wrap up button (rendered while in-progress)
handleManualWrapUp ==
    /\ callState = "in-progress"
    /\ endCall(CurrentEnv, WrapUpReasonText, timers)
    /\ UNCHANGED << currentStep, autoRespond, customerDraft, callStartedAt,
                    customerName, voiceEnabled, clock >>

\* a hang-up that sets the transcript instead of appending to it
HangUpReplacing ==
    /\ callState = "in-progress"
    /\ timers' = ClearedTimers(timers, agentTimer, customerTimer)
    /\ agentTimer' = NoTimer
    /\ customerTimer' = NoTimer
    /\ callState' = "completed"
    /\ callEndedAt' = clock
    /\ messages' = << createMessage("system", HangUpText, DisconnectedMeta) >>
    /\ UNCHANGED << currentStep, autoRespond, customerDraft, awaitingResponse,
                    callStartedAt, customerName, voiceEnabled, utterance, clock >>

\* Hang up button (rendered while in-progress)
HangUp ==
    /\ callState = "in-progress"
    /\ timers' = ClearedTimers(timers, agentTimer, customerTimer)
    /\ agentTimer' = NoTimer
    /\ customerTimer' = NoTimer
    /\ callState' = "completed"
    /\ callEndedAt' = clock
    /\ messages' = Append(messages, createMessage("system", HangUpText, DisconnectedMeta))
    /\ UNCHANGED << currentStep, autoRespond, customerDraft, awaitingResponse,
                    callStartedAt, customerName, voiceEnabled, utterance, clock >>

\* Auto-pilot / Manual toggle
ToggleAutoRespond ==
    /\ autoRespond' = ~autoRespond
    /\ UNCHANGED << callState, messages, currentStep, customerDraft,
                    awaitingResponse, callStartedAt, callEndedAt, customerName,
                    voiceEnabled, utterance, agentTimer, customerTimer, timers,
                    clock >>

\* typing in the reply textarea (the form is rendered in manual mode while
\* in-progress)
TypeDraft ==
    /\ ~autoRespond
    /\ callState = "in-progress"
    /\ \E d \in Drafts :
          /\ d # customerDraft
          /\ customerDraft' = d
    /\ UNCHANGED << callState, messages, currentStep, autoRespond,
                    awaitingResponse, callStartedAt, callEndedAt, customerName,
                    voiceEnabled, utterance, agentTimer, customerTimer, timers,
                    clock >>

\* Send reply: handleCustomerSubmit of the current render
handleCustomerSubmit ==
    /\ ~autoRespond
    /\ callState = "in-progress"
    /\ IF Trim(customerDraft) = <<>> \/ callState # "in-progress"
       THEN UNCHANGED state
       ELSE LET text == Trim(customerDraft)
                nextTimer == NewTimer(timers, agentTimer, customerTimer, "run",
                                      currentStep + 1, CurrentEnv, ReplyDelay)
            IN  /\ customerDraft' = <<>>
                /\ messages' = Append(messages, createMessage("customer", TypedText(text), NoMeta))
                /\ awaitingResponse' = FALSE
                /\ agentTimer' = nextTimer.id
                /\ timers' = timers \cup {nextTimer}
                /\ UNCHANGED << callState, currentStep, autoRespond, callStartedAt,
                                callEndedAt, customerName, voiceEnabled, utterance,
                                customerTimer, clock >>

\* Voice On / Off toggle
ToggleVoice ==
    /\ voiceEnabled' = ~voiceEnabled
    /\ UNCHANGED << callState, messages, currentStep, autoRespond, customerDraft,
                    awaitingResponse, callStartedAt, callEndedAt, customerName,
                    utterance, agentTimer, customerTimer, timers, clock >>

\* the speech synthesis reaches the end of the line it is speaking
UtteranceEnds ==
    /\ utterance # NoUtterance
    /\ utterance' = NoUtterance
    /\ UNCHANGED << callState, messages, currentStep, autoRespond, customerDraft,
                    awaitingResponse, callStartedAt, callEndedAt, customerName,
                    voiceEnabled, agentTimer, customerTimer, timers, clock >>

\* editing the customer-name field
EditCustomerName ==
    /\ \E n \in CustomerNames :
          /\ n # customerName
          /\ customerName' = n
    /\ UNCHANGED << callState, messages, currentStep, autoRespond, customerDraft,
                    awaitingResponse, callStartedAt, callEndedAt, voiceEnabled,
                    utterance, agentTimer, customerTimer, timers, clock >>

\* -------------------------------------------------------- timer firings

\* the callback handleStartCall scheduled
FireConnect(t) ==
    /\ t.kind = "connect"
    /\ callState' = "in-progress"
    /\ deliverAgentLine(0, t.env, Elapse(timers, t),
                        Append(messages, createMessage("system", ConnectedText, StatusMeta)))

\* the callback deliverAgentLine scheduled on customerTimer (auto-pilot)
FireCustomer(t) ==
    /\ t.kind = "customer"
    /\ LET nextTimer == NewTimer(Elapse(timers, t), agentTimer, customerTimer, "run",
                                  t.step + 1, t.env, NextLineDelay)
       IN  /\ messages' = Append(messages,
                  createMessage("customer", CustomerLineText(t.step, t.env.customerName), NoMeta))
           /\ awaitingResponse' = FALSE
           /\ agentTimer' = nextTimer.id
           /\ timers' = Elapse(timers, t) \cup {nextTimer}
    /\ UNCHANGED << callState, currentStep, callEndedAt, customerTimer, utterance >>

\* a callback that calls deliverAgentLine(step): scheduled by the customer
\* callback or by handleCustomerSubmit
FireRun(t) ==
    /\ t.kind = "run"
    /\ deliverAgentLine(t.step, t.env, Elapse(timers, t), messages)
    /\ IF HasStep(t.step) THEN callState' = callState ELSE TRUE

\* the callback deliverAgentLine scheduled for a step without customer line
FireEnd(t) ==
    /\ t.kind = "end"
    /\ endCall(t.env, DefaultClosingText(t.env.customerName), Elapse(timers, t))
    /\ UNCHANGED currentStep

FireTimer ==
    /\ \E t \in timers :
          /\ CanFire(timers, t)
          /\ (FireConnect(t) \/ FireCustomer(t) \/ FireRun(t) \/ FireEnd(t))
    /\ UNCHANGED << autoRespond, customerDraft, callStartedAt, customerName,
                    voiceEnabled, clock >>

\* Date.now() advances
Tick ==
    /\ clock < MaxClock
    /\ clock' = clock + 1
    /\ UNCHANGED << callState, messages, currentStep, autoRespond, customerDraft,
                    awaitingResponse, callStartedAt, callEndedAt, customerName,
                    voiceEnabled, utterance, agentTimer, customerTimer, timers >>

\* one more user input, while the behaviour has inputs left
UserInput ==
    /\ inputs < MaxInputs
    /\ inputs' = inputs + 1
    /\ UNCHANGED pure

Next ==
    \/ (UserInput /\ handleStartCall)
    \/ (UserInput /\ handleManualWrapUp)
    \/ (UserInput /\ HangUp)
    \/ (UserInput /\ ToggleAutoRespond)
    \/ (UserInput /\ TypeDraft)
    \/ (UserInput /\ handleCustomerSubmit)
    \/ (UserInput /\ EditCustomerName)
    \/ (FireTimer /\ UNCHANGED << inputs, pure >>)
    \/ (Tick /\ UNCHANGED << inputs, pure >>)

Spec == Init /\ [][Next]_vars

TypeOK ==
    /\ callState \in CallStates
    /\ currentStep \in 0 .. ScriptLen
    /\ inputs \in 0 .. Max(MaxInputs, MaxLateInputs)


\* ------------------------------------------------- auto-pilot, hands off
\* The user presses Launch / Restart and then leaves the call alone: only
\* the start button, the name field before a start, and the timers act.
\* Every scheduled timer fires.  These behaviours are finite without a
\* bound on the inputs, so the inputs are not counted here.
NextAuto ==
    \/ (handleStartCall /\ UNCHANGED << inputs, pure >>)
    \/ (EditCustomerName /\ callState \in {"idle", "completed"} /\ UNCHANGED << inputs, pure >>)
    \/ (FireTimer /\ UNCHANGED << inputs, pure >>)
    \/ (Tick /\ UNCHANGED << inputs, pure >>)

SpecAuto ==
    /\ Init
    /\ [][NextAuto]_vars
    /\ WF_vars(FireTimer /\ UNCHANGED << inputs, pure >>)

\* ------------------------------------------------- the call with voice
\* The user also works the Voice toggle, and the speech synthesis finishes
\* a line at some time after it was requested.
NextVoice ==
    \/ Next
    \/ (UserInput /\ ToggleVoice)
    \/ (UtteranceEnds /\ UNCHANGED << inputs, pure >>)

SpecVoice == Init /\ [][NextVoice]_vars

\* ------------------------------------------- the user steps in late
\* The user starts a call and leaves it alone until the agent line of the
\* last stage that has a customer line is out; from then on the user works
\* the toggle, the reply form, Wrap up and the start button.  The clock is
\* not read twice and the name is left alone.
LateInput ==
    /\ inputs < MaxLateInputs
    /\ inputs' = inputs + 1
    /\ UNCHANGED pure
    /\ (inputs = 0 \/ currentStep >= ScriptLen - 2 \/ callState = "completed")

NextLate ==
    \/ (LateInput /\ handleStartCall)
    \/ (LateInput /\ handleManualWrapUp)
    \/ (LateInput /\ ToggleAutoRespond /\ callState # "idle")
    \/ (LateInput /\ TypeDraft /\ customerDraft' = << "a" >>)
    \/ (LateInput /\ handleCustomerSubmit)
    \/ (FireTimer /\ UNCHANGED << inputs, pure >>)

SpecLate == Init /\ [][NextLate]_vars

\* ------------------------------------------- helper functions on their own
\* Each behaviour starts with the arguments of one application, drawn from
\* the sets below, and the one step applies the function.

MaxTranscript == 3     \* messages of a transcript given to deriveHighlights

\* "Sam"
SamName ==
    << "S", "a", "m" >>

\* "Jordan Wells"
JordanName ==
    << "J", "o", "r", "d", "a", "n", " ", "W", "e", "l", "l", "s" >>

\* the agent line of the second step of buildScript
Stage2Line ==
    << "W", "e", "'", "v", "e", " ", "b", "e", "e", "n", " ", "t", "r", "a",
       "c", "k", "i", "n", "g", " ", "y", "e", "s", "t", "e", "r", "d", "a",
       "y", "'", "s", " ", "p", "r", "o", "d", "u", "c", "t", "i", "o", "n",
       " ", "a", "n", "d", " ", "s", "a", "w", " ", "a", " ", "d", "i", "p",
       " ", "a", "c", "r", "o", "s", "s", " ", "t", "w", "o", " ", "s", "t",
       "r", "i", "n", "g", "s", ".", " ", "B", "e", "f", "o", "r", "e", " ",
       "I", " ", "r", "u", "n", " ", "a", " ", "r", "e", "m", "o", "t", "e",
       " ", "d", "i", "a", "g", "n", "o", "s", "t", "i", "c", ",", " ", "w",
       "e", "r", "e", " ", "t", "h", "e", "r", "e", " ", "a", "n", "y", " ",
       "w", "e", "a", "t", "h", "e", "r", " ", "o", "r", " ", "s", "h", "a",
       "d", "i", "n", "g", " ", "c", "h", "a", "n", "g", "e", "s", " ", "o",
       "n", " ", "y", "o", "u", "r", " ", "e", "n", "d", "?" >>

\* the agent line of the sixth step of buildScript
Stage6Line ==
    << "L", "o", "c", "k", "e", "d", " ", "i", "n", " ", "f", "o", "r", " ",
       "T", "h", "u", "r", "s", "d", "a", "y", " ", "a", "t", " ", "1", "0",
       "a", "m", ".", " ", "Y", "o", "u", "'", "l", "l", " ", "g", "e", "t",
       " ", "a", " ", "c", "o", "n", "f", "i", "r", "m", "a", "t", "i", "o",
       "n", " ", "e", "m", "a", "i", "l", " ", "w", "i", "t", "h", " ", "t",
       "h", "e", " ", "w", "o", "r", "k", " ", "o", "r", "d", "e", "r", " ",
       "a", "n", "d", " ", "p", "r", "e", "p", " ", "c", "h", "e", "c", "k",
       "l", "i", "s", "t", ".", " ", "A", "n", "y", "t", "h", "i", "n", "g",
       " ", "e", "l", "s", "e", " ", "I", " ", "c", "a", "n", " ", "m", "a",
       "k", "e", " ", "e", "a", "s", "i", "e", "r", " ", "w", "h", "i", "l",
       "e", " ", "I", " ", "h", "a", "v", "e", " ", "y", "o", "u", "?" >>

\* the reason handleManualWrapUp gives to endCall
WrapUpReasonLine ==
    << "U", "n", "d", "e", "r", "s", "t", "o", "o", "d", ".", " ", "I", "'",
       "l", "l", " ", "s", "e", "n", "d", " ", "o", "v", "e", "r", " ", "t",
       "h", "e", " ", "f", "o", "l", "l", "o", "w", "-", "u", "p", " ", "d",
       "e", "t", "a", "i", "l", "s", " ", "r", "i", "g", "h", "t", " ", "a",
       "w", "a", "y", "." >>

\* the customer line of the fifth step of buildScript
ShortReply ==
    << "T", "h", "u", "r", "s", "d", "a", "y", " ", "m", "o", "r", "n", "i",
       "n", "g", " ", "w", "o", "r", "k", "s", "." >>

\* a typed reply of 73 characters
LongReply ==
    << "T", "h", "u", "r", "s", "d", "a", "y", " ", "m", "o", "r", "n", "i",
       "n", "g", " ", "w", "o", "r", "k", "s", ",", " ", "b", "u", "t", " ",
       "p", "l", "e", "a", "s", "e", " ", "c", "a", "l", "l", " ", "m", "e",
       " ", "b", "e", "f", "o", "r", "e", " ", "t", "h", "e", " ", "t", "e",
       "c", "h", "n", "i", "c", "i", "a", "n", " ", "a", "r", "r", "i", "v",
       "e", "s", "." >>

\* "Call connected"
ConnectedLine ==
    << "C", "a", "l", "l", " ", "c", "o", "n", "n", "e", "c", "t", "e", "d" >>

\* messages a transcript can hold: agent lines that match one pattern, the
\* other or none, customer replies up to and beyond the quoted length, a
\* system line
HighlightMessages ==
    { createMessage("agent", Stage2Line, StageMeta(1)),
      createMessage("agent", Stage6Line, StageMeta(5)),
      createMessage("agent", WrapUpReasonLine, WrapUpMeta),
      createMessage("customer", ShortReply, NoMeta),
      createMessage("customer", LongReply, NoMeta),
      createMessage("system", ConnectedLine, StatusMeta) }

Transcripts == UNION { [1 .. n -> HighlightMessages] : n \in 0 .. MaxTranscript }

HighlightArgs ==
    { [fn |-> "deriveHighlights", messages |-> t, customerName |-> n] :
          t \in Transcripts, n \in { SamName, JordanName } }

MaxPieces == 3         \* pieces a goal given to deriveFocusPoints is made of

\* "help"
HelpGoal ==
    << "h", "e", "l", "p" >>

\* "Verify output dips, offer diagnostic, and book a technician."
Goal19 ==
    << "V", "e", "r", "i", "f", "y", " ", "o", "u", "t", "p", "u", "t", " ",
       "d", "i", "p", "s", ",", " ", "o", "f", "f", "e", "r", " ", "d", "i",
       "a", "g", "n", "o", "s", "t", "i", "c", ",", " ", "a", "n", "d", " ",
       "b", "o", "o", "k", " ", "a", " ", "t", "e", "c", "h", "n", "i", "c",
       "i", "a", "n", "." >>

\* the goal the page starts with
DefaultGoal ==
    << "V", "e", "r", "i", "f", "y", " ", "p", "o", "w", "e", "r", " ", "o",
       "u", "t", "p", "u", "t", " ", "d", "i", "p", "s", " ", "o", "n", " ",
       "a", " ", "r", "o", "o", "f", "t", "o", "p", " ", "s", "o", "l", "a",
       "r", " ", "a", "r", "r", "a", "y", ",", " ", "o", "f", "f", "e", "r",
       " ", "a", " ", "r", "e", "m", "o", "t", "e", " ", "d", "i", "a", "g",
       "n", "o", "s", "t", "i", "c", ",", " ", "a", "n", "d", " ", "b", "o",
       "o", "k", " ", "a", " ", "t", "e", "c", "h", "n", "i", "c", "i", "a",
       "n", " ", "i", "f", " ", "p", "r", "o", "d", "u", "c", "t", "i", "o",
       "n", " ", "i", "s", " ", "b", "e", "l", "o", "w", " ", "t", "a", "r",
       "g", "e", "t", "." >>

\* what a typed goal is made of: words of 4, 8 and 15 characters, the word
\* 'and' with and without blanks around it, separators and terminators
GoalPieces ==
    { HelpGoal,
      << "h", "a", "s", " ", "d", "i", "p", "s" >>,
      << "c", "h", "e", "c", "k", " ", "t", "h", "e", " ", "a", "r", "r", "a", "y" >>,
      << " ", "a", "n", "d", " " >>,
      << "A", "n", "d" >>,
      << "," >>, << ";" >>, << "." >>, << "?" >> }

Goals ==
    { Concat(ps) : ps \in UNION { [1 .. n -> GoalPieces] : n \in 0 .. MaxPieces } }
        \cup { Goal19, DefaultGoal }

FocusArgs == { [fn |-> "deriveFocusPoints", goal |-> g] : g \in Goals }

MaxTemplate == 3       \* pieces a template given to personalise is made of

\* AGENT_NAME
QuinName ==
    << "Q", "u", "i", "n" >>

\* "Acme"
AcmeName ==
    << "A", "c", "m", "e" >>

\* "Hi {customer}, this is {agent} from {company}."
ExampleTemplate ==
    << "H", "i", " ", "{", "c", "u", "s", "t", "o", "m", "e", "r", "}", ",",
       " ", "t", "h", "i", "s", " ", "i", "s", " ", "{", "a", "g", "e", "n",
       "t", "}", " ", "f", "r", "o", "m", " ", "{", "c", "o", "m", "p", "a",
       "n", "y", "}", "." >>

Tokens == { AgentToken, CustomerToken, CompanyToken, GoalToken }

\* what a template is made of: the four tokens and literal text
TemplatePieces ==
    Tokens \cup { << "H", "i", " " >>, << ",", " " >> }

\* the example template in pieces
ExamplePieces ==
    << << "H", "i", " " >>, CustomerToken,
       << ",", " ", "t", "h", "i", "s", " ", "i", "s", " " >>, AgentToken,
       << " ", "f", "r", "o", "m", " " >>, CompanyToken, << "." >> >>

Templates ==
    UNION { [1 .. n -> TemplatePieces] : n \in 0 .. MaxTemplate } \cup { ExamplePieces }

\* what the user types into the fields of the scenario: plain names, names
\* with a dollar sign, a name with braces
Scenarios ==
    [ agentName : { QuinName },
      customerName : { SamName, << "$", "&" >>, << "A", "$", "$" >>, GoalToken },
      companyName : { AcmeName, << "$", "'" >> },
      goal : { HelpGoal, << "$", "BACKTICK" >> } ]

PersonaliseArgs ==
    { [fn |-> "personalise", pieces |-> t, scenario |-> sc] :
          t \in Templates, sc \in Scenarios }

PureArgs == HighlightArgs \cup FocusArgs \cup PersonaliseArgs

InitPure ==
    /\ InitSession
    /\ args \in PureArgs
    /\ result = <<>>
    /\ applied = FALSE

\* the render computes deriveHighlights(messages, scenario)
ApplyDeriveHighlights ==
    /\ args.fn = "deriveHighlights"
    /\ ~applied
    /\ result' = deriveHighlights(args.messages, args.customerName)
    /\ applied' = TRUE
    /\ UNCHANGED << args, state, inputs >>

\* buildScript computes deriveFocusPoints(scenario.goal)
ApplyDeriveFocusPoints ==
    /\ args.fn = "deriveFocusPoints"
    /\ ~applied
    /\ result' = deriveFocusPoints(args.goal)
    /\ applied' = TRUE
    /\ UNCHANGED << args, state, inputs >>

\* deliverAgentLine and the script preview compute personalise(text, scenario)
ApplyPersonalise ==
    /\ args.fn = "personalise"
    /\ ~applied
    /\ result' = personalise(Concat(args.pieces), args.scenario)
    /\ applied' = TRUE
    /\ UNCHANGED << args, state, inputs >>

NextPure ==
    \/ ApplyDeriveHighlights
    \/ ApplyDeriveFocusPoints
    \/ ApplyPersonalise

SpecPure == InitPure /\ [][NextPure]_vars

\* ------------------------------------------------------ claim vocabulary
Last(seq) == seq[Len(seq)]

IsStageLine(m) == m.role = "agent" /\ m.meta[1] = "Stage"
IsWrapUp(m) == m.role = "agent" /\ m.meta = WrapUpMeta
IsHangUpLine(m) == m.role = "system" /\ m.text.tpl = "Call ended manually"

\* the ref that a timer of this kind is stored in when it is scheduled
IsCustomerRole(t) == t.kind = "customer"
IsAgentRole(t) == t.kind # "customer"

\* a step appends exactly the message m to the transcript
Appends(m) == messages' = Append(messages, m)

\* C1: within one call the transcript never holds two agent lines with the
\* same 'Stage k' label.
C1_NoDuplicateStage ==
    \A i, j \in 1 .. Len(messages) :
        (i < j /\ IsStageLine(messages[i]) /\ IsStageLine(messages[j]))
            => messages[i].meta # messages[j].meta

\* C2: at most one pending agent timer and at most one pending customer
\* timer, and every pending timer's handle is still held in agentTimer or
\* customerTimer.
C2_OnePendingTimerPerRole ==
    /\ Cardinality({ t \in timers : IsAgentRole(t) }) <= 1
    /\ Cardinality({ t \in timers : IsCustomerRole(t) }) <= 1
    /\ \A t \in timers : t.id = agentTimer \/ t.id = customerTimer

\* C3: when callState is completed no timer is pending, and while it stays
\* completed the transcript, callState, currentStep and awaitingResponse do
\* not change.
C3_CompletedIsQuiet ==
    [][ /\ (callState' = "completed" => timers' = {})
        /\ (callState = "completed" /\ callState' # "dialing")
              => UNCHANGED << messages, callState, currentStep, awaitingResponse >>
      ]_vars

\* C4: callState only changes idle->dialing, dialing->in-progress,
\* in-progress->completed, completed->dialing.
AllowedTransitions ==
    { << "idle", "dialing" >>, << "dialing", "in-progress" >>,
      << "in-progress", "completed" >>, << "completed", "dialing" >> }

C4_OnlyAllowedTransitions ==
    [][ callState' # callState => << callState, callState' >> \in AllowedTransitions ]_vars

\* C5: in auto-pilot with no user action after the start button, every
\* started call (from idle or restarted from completed) eventually reaches
\* callState = completed.
C5_StartedCallCompletes ==
    (callState = "dialing") ~> (callState = "completed")

\* C6: endCall run while callState is completed changes nothing; the
\* transcript never holds more than one 'Wrap-up' message and never a
\* 'Wrap-up' message after 'Call ended manually'.
EndCallRuns(t) == FireEnd(t) \/ (FireRun(t) /\ ~HasStep(t.step))

WrapUpAtMostOnce ==
    \A i, j \in 1 .. Len(messages) :
        (i < j /\ IsWrapUp(messages[j]))
            => (~IsWrapUp(messages[i]) /\ ~IsHangUpLine(messages[i]))

C6_EndCallIdempotent ==
    [][ /\ (callState = "completed" /\ \E t \in timers : EndCallRuns(t))
              => UNCHANGED << callState, messages, callEndedAt, awaitingResponse >>
        /\ WrapUpAtMostOnce'
      ]_vars

\* C7: while callState stays in-progress currentStep never decreases.
C7_StepMonotone ==
    [][ (callState = "in-progress" /\ callState' = "in-progress")
            => currentStep' >= currentStep ]_vars

\* C8: a start (from idle or completed) yields the fresh dialing state: the
\* transcript is the single 'Dialing <customer>...' message, currentStep 0,
\* awaitingResponse false, callEndedAt null, callStartedAt the start time,
\* empty draft, and the connect timer is the only pending timer.
C8_StartIsFreshState ==
    [][ (callState \in {"idle", "completed"} /\ callState' = "dialing")
            => /\ messages' = << createMessage("system", DialingText(customerName), StatusMeta) >>
               /\ currentStep' = 0
               /\ awaitingResponse' = FALSE
               /\ callEndedAt' = Null
               /\ callStartedAt' = clock
               /\ customerDraft' = <<>>
               /\ \E t \in timers' :
                     /\ timers' = {t}
                     /\ t.kind = "connect"
                     /\ agentTimer' = t.id
      ]_vars

\* C9: with the auto-pilot toggle off, once an agent line of a step that has
\* a customer line is delivered, awaitingResponse is true, no scripted
\* customer message is appended and no further agent line is delivered
\* until the user submits a reply, also when the toggle was switched during
\* the call.
PausedForReply ==
    /\ ~autoRespond
    /\ callState = "in-progress"
    /\ IsStageLine(Last(messages))
    /\ StepHasCustomer(Last(messages).text.step)

C9_ManualModePauses ==
    [][ /\ PausedForReply' => awaitingResponse'
        /\ (PausedForReply /\ Len(messages') > Len(messages))
              => /\ Last(messages').role # "agent"
                 /\ Last(messages').text.tpl # "customer"
      ]_vars


\* C10: a step that appends a typed customer message (a reply submitted in
\* manual mode while in-progress) appends exactly that one message, sets
\* awaitingResponse to false and schedules deliverAgentLine(currentStep + 1)
\* whatever the text is.
IsSpaces(s) == \A k \in 1 .. Len(s) : s[k] = " "

\* x is d without its leading and trailing whitespace
IsTrimOf(x, d) ==
    /\ x # <<>> => (x[1] # " " /\ x[Len(x)] # " ")
    /\ \E i \in 0 .. Len(d) :
          /\ i + Len(x) <= Len(d)
          /\ IsSpaces(SubSeq(d, 1, i))
          /\ SubSeq(d, i + 1, i + Len(x)) = x
          /\ IsSpaces(SubSeq(d, i + Len(x) + 1, Len(d)))

SubmitStep ==
    /\ callState = "in-progress"
    /\ Len(messages') = Len(messages) + 1
    /\ Last(messages').role = "customer"
    /\ Last(messages').text.tpl = "typed"

SubmitEffect(text) ==
    /\ ~autoRespond
    /\ text # <<>>
    /\ Appends(createMessage("customer", TypedText(text), NoMeta))
    /\ awaitingResponse' = FALSE
    /\ UNCHANGED << callState, currentStep >>
    /\ \E t \in timers' \ timers :
          /\ timers' = timers \cup {t}
          /\ t.kind = "run"
          /\ t.step = currentStep + 1
          /\ agentTimer' = t.id

C11_BlankSubmitIsNoOp ==
    [][ (handleCustomerSubmit /\ (IsSpaces(customerDraft) \/ callState # "in-progress"))
            => UNCHANGED << messages, callState, currentStep, awaitingResponse,
                            customerDraft, timers, agentTimer, customerTimer >>
      ]_vars

\* a whitespace-only draft in the reply form of a call that waits for the
\* reply, after the inputs a submit of it takes (manual, start, type, send)
C11_Witness ==
    /\ callState = "in-progress"
    /\ ~autoRespond
    /\ customerDraft = << " " >>
    /\ awaitingResponse
    /\ IsStageLine(Last(messages))
    /\ timers = {}
    /\ inputs >= 4


\* C12: the scenario is read-only during a call: every message of the
\* transcript is built from the scenario as it was when the call was
\* started, whose customer name the opening 'Dialing <customer>...' message
\* records; an edit made during the call shows in no message of that call.
NameAtStart == messages[1].text.customer

C12_ScenarioFixedDuringCall ==
    \A i \in 1 .. Len(messages) :
        messages[i].text.customer \in { "", NameAtStart }


\* C13: in every reachable state currentStep is an integer from 0 to the
\* script length (7): never negative, never past the script length.
C13_StepInRange == currentStep \in 0 .. ScriptLen

\* the last step is current and a reply sent after it has scheduled
\* deliverAgentLine with the index past the end of the script
C13_Witness ==
    /\ currentStep = ScriptLen - 1
    /\ \E t \in timers : t.kind = "run" /\ t.step = ScriptLen


\* C14: the transcript is append-only between starts: a step that is not a
\* start leaves the transcript unchanged or appends exactly one message at
\* its end; only a start replaces the transcript.
IsPrefixOf(a, b) == Len(a) <= Len(b) /\ SubSeq(b, 1, Len(a)) = a

StartStep == callState \in {"idle", "completed"} /\ callState' = "dialing"

\* the step appends 'Call connected' and the line of the first stage
AppendsConnectedAndStage ==
    /\ Len(messages') = Len(messages) + 2
    /\ messages'[Len(messages) + 1] = createMessage("system", ConnectedText, StatusMeta)
    /\ IsStageLine(Last(messages'))
    /\ Last(messages').text.step = 0

\* C14 as stated: at most one message per step.
C14_AppendsOneMessage ==
    [][ StartStep \/ ( /\ IsPrefixOf(messages, messages')
                       /\ Len(messages') <= Len(messages) + 1 ) ]_vars

\* C14 as amended: one message per step, but for the connect callback,
\* which appends two.
C14_AppendOnly ==
    [][ StartStep \/ ( /\ IsPrefixOf(messages, messages')
                       /\ ( Len(messages') <= Len(messages) + 1
                            \/ AppendsConnectedAndStage ) ) ]_vars

\* the connect callback has run: the transcript of the start plus the two
\* messages of that one step
C14_Witness ==
    /\ callState = "in-progress"
    /\ Len(messages) = 3
    /\ messages[1].text.tpl = "Dialing"
    /\ messages[2] = createMessage("system", ConnectedText, StatusMeta)
    /\ IsStageLine(messages[3])


\* C15: speech is requested only if the voice toggle is on when the line is
\* emitted: a step taken while voiceEnabled is false (an agent line
\* delivered, the call ended) hands no utterance to the speech synthesis,
\* also when the toggle was switched off during the call.
SpeechRequested == utterance' # NoUtterance /\ utterance' # utterance

C15_NoSpeechWhileVoiceOff ==
    [][ ~voiceEnabled => ~SpeechRequested ]_vars

\* C16: when the call ends (callState becomes completed by the end of the
\* script, a wrap-up or a hang-up) the speech synthesis is not left
\* speaking a line that was requested before the end: it is silent or
\* speaks the closing line of that step.
CallEnds == callState # "completed" /\ callState' = "completed"

C16_EndCancelsSpeech ==
    [][ CallEnds => ( \/ utterance' = NoUtterance
                      \/ ( /\ utterance' = Len(messages')
                           /\ IsWrapUp(Last(messages')) ) ) ]_vars


\* C17: deriveHighlights of an empty transcript returns exactly the three
\* placeholder strings, in this order: 'Personalised ready-to-dial script
\* for <customerName>.', 'Auto-generated coaching cues for every stage.',
\* 'Toggle between auto-pilot and manual customer role-play.'; of a
\* non-empty transcript it returns a non-empty list without duplicates.
NoDuplicates(seq) ==
    \A i, j \in 1 .. Len(seq) : i < j => seq[i] # seq[j]

C17_Highlights ==
    (args.fn = "deriveHighlights" /\ applied) =>
        IF args.messages = <<>>
        THEN /\ Len(result) = 3
             /\ result[1] = PersonalisedPrefix \o args.customerName \o << "." >>
             /\ result[2] = CoachingCues
             /\ result[3] = ToggleModes
        ELSE /\ Len(result) > 0
             /\ NoDuplicates(result)

\* a transcript with a booking line, a diagnostic line and a long customer
\* reply gave the three derived highlights, the reply cut and marked
C17_Witness ==
    /\ args.fn = "deriveHighlights"
    /\ applied
    /\ Len(args.messages) = 3
    /\ result = << BookingHighlight, DiagnosticsHighlight,
                   CustomerHighlight(LongReply) >>
    /\ Len(CustomerHighlight(LongReply)) = Len(CustomerRespondedPrefix) + HighlightLimit + 2


\* C18: for goal = "help", and for every goal in which no fragment of the
\* sentence split or of the comma / semicolon / 'and' split is longer than
\* 8 characters (measured after the trim, which admits more goals than
\* measuring before it), deriveFocusPoints returns exactly the three
\* default phrases in their order.
Fragments(goal) == MapTrim(Split("sentence", goal)) \o MapTrim(Split("phrase", goal))

NoLongFragment(goal) ==
    LET fs == Fragments(goal)
    IN  \A i \in 1 .. Len(fs) : Len(fs[i]) <= 8

C18_ShortGoalGivesDefaults ==
    (args.fn = "deriveFocusPoints" /\ applied /\ NoLongFragment(args.goal))
        => result = << FocusDefault1, FocusDefault2, FocusDefault3 >>

\* deriveFocusPoints("help") has returned the defaults
C18_Witness ==
    /\ args.fn = "deriveFocusPoints"
    /\ applied
    /\ args.goal = HelpGoal
    /\ NoLongFragment(args.goal)
    /\ result = FocusDefaults

\* C19: for goal = "Verify output dips, offer diagnostic, and book a
\* technician." deriveFocusPoints takes the sentence-split path (the split
\* on sentence terminators yields at least 2 fragments longer than 8
\* characters) and the result holds a phrase that is no default phrase.
IsDefaultPhrase(p) == \E i \in 1 .. Len(FocusDefaults) : FocusDefaults[i] = p

HasOtherPhrase(list) == \E i \in 1 .. Len(list) : ~IsDefaultPhrase(list[i])

AppliedToGoal19 ==
    args.fn = "deriveFocusPoints" /\ applied /\ args.goal = Goal19

\* C19 as stated: the sentence-split path is taken.
C19_SentencePath ==
    AppliedToGoal19 =>
        /\ Len(Sentences(args.goal)) >= 2
        /\ HasOtherPhrase(result)

\* the goal without its full stop
Goal19Sentence ==
    << "V", "e", "r", "i", "f", "y", " ", "o", "u", "t", "p", "u", "t", " ",
       "d", "i", "p", "s", ",", " ", "o", "f", "f", "e", "r", " ", "d", "i",
       "a", "g", "n", "o", "s", "t", "i", "c", ",", " ", "a", "n", "d", " ",
       "b", "o", "o", "k", " ", "a", " ", "t", "e", "c", "h", "n", "i", "c",
       "i", "a", "n" >>

\* "Verify output dips"
Goal19Phrase1 ==
    << "V", "e", "r", "i", "f", "y", " ", "o", "u", "t", "p", "u", "t", " ",
       "d", "i", "p", "s" >>

\* "offer diagnostic"
Goal19Phrase2 ==
    << "o", "f", "f", "e", "r", " ", "d", "i", "a", "g", "n", "o", "s", "t",
       "i", "c" >>

\* C19 as amended: the sentence split yields one fragment longer than 8
\* characters, the merge path is taken, and the result is that sentence
\* followed by the first two phrases of the comma / 'and' split: no default
\* phrase is among them.
C19_MergePath ==
    AppliedToGoal19 =>
        /\ Len(Sentences(args.goal)) = 1
        /\ result = << Goal19Sentence, Goal19Phrase1, Goal19Phrase2 >>
        /\ HasOtherPhrase(result)

\* deriveFocusPoints has returned for that goal
C19_Witness ==
    /\ AppliedToGoal19
    /\ Len(result) = 3
    /\ result[2] = Goal19Phrase1


\* C20: personalise replaces every occurrence of {agent}, {customer},
\* {company}, {goal} by the field of the scenario: for a template of
\* literal text and these tokens and a scenario whose fields hold no brace,
\* the result is the template with each token replaced by its field, and
\* holds no placeholder and no brace.
HasNoBrace(s) == \A i \in 1 .. Len(s) : s[i] \notin { "{", "}" }

FieldsHaveNoBrace(sc) ==
    /\ HasNoBrace(sc.agentName)
    /\ HasNoBrace(sc.customerName)
    /\ HasNoBrace(sc.companyName)
    /\ HasNoBrace(sc.goal)

\* the field a token names, the piece itself for literal text
FieldFor(piece, sc) ==
    IF piece = AgentToken THEN sc.agentName
    ELSE IF piece = CustomerToken THEN sc.customerName
    ELSE IF piece = CompanyToken THEN sc.companyName
    ELSE IF piece = GoalToken THEN sc.goal
    ELSE piece

Substituted(pieces, sc) ==
    Concat([k \in 1 .. Len(pieces) |-> FieldFor(pieces[k], sc)])

C20_TokensReplaced ==
    (args.fn = "personalise" /\ applied /\ FieldsHaveNoBrace(args.scenario))
        => /\ result = Substituted(args.pieces, args.scenario)
           /\ HasNoBrace(result)


\* C21: a call run in auto-pilot with no user action after the start: when
\* callState is completed the transcript is exactly 'Dialing ...', 'Call
\* connected', for k = 1..6 the agent line of stage k followed by the
\* scripted customer line of stage k, the agent line of stage 7 and one
\* 'Wrap-up' closing line; before that the transcript is a beginning of
\* this list, so each customer line follows its agent line and stage k + 1
\* follows the customer line of stage k.
ScriptedMessage(i, name) ==
    IF i % 2 = 1
    THEN createMessage("agent", AgentLineText((i - 1) \div 2, name), StageMeta((i - 1) \div 2))
    ELSE createMessage("customer", CustomerLineText((i \div 2) - 1, name), NoMeta)

FullTranscript(name) ==
    << createMessage("system", DialingText(name), StatusMeta),
       createMessage("system", ConnectedText, StatusMeta) >>
    \o [i \in 1 .. (2 * ScriptLen - 1) |-> ScriptedMessage(i, name)]
    \o << createMessage("agent", DefaultClosingText(name), WrapUpMeta) >>

C21_AutoPilotTranscript ==
    /\ messages # <<>> => IsPrefixOf(messages, FullTranscript(NameAtStart))
    /\ callState = "completed" => messages = FullTranscript(NameAtStart)

\* the call has run to its end: sixteen messages, the last the closing line
C21_Witness ==
    /\ callState = "completed"
    /\ autoRespond
    /\ Len(messages) = 2 * ScriptLen + 2
    /\ IsWrapUp(Last(messages))
    /\ IsStageLine(messages[Len(messages) - 1])
    /\ messages[Len(messages) - 2].role = "customer"


\* C22: Hang up (available only while in-progress) sets callState to
\* completed, sets callEndedAt, cancels the pending agent and customer
\* timers (none is pending afterwards) and appends exactly one system
\* message 'Call ended manually'; it appends no 'Wrap-up' line and leaves
\* currentStep and the earlier messages unchanged.
HangUpStep == messages' # messages /\ IsHangUpLine(Last(messages'))

HangUpEffect ==
    /\ callState = "in-progress"
    /\ callState' = "completed"
    /\ callEndedAt' = clock
    /\ callEndedAt' # Null
    /\ agentTimer' = NoTimer
    /\ customerTimer' = NoTimer
    /\ \A t \in timers' : t.id # agentTimer /\ t.id # customerTimer
    /\ PendingIds(timers') \subseteq PendingIds(timers)
    /\ Appends(createMessage("system", HangUpText, DisconnectedMeta))
    /\ ~IsWrapUp(Last(messages'))
    /\ currentStep' = currentStep

C22_HangUpEndsCall ==
    [][ HangUpStep => (HangUpEffect /\ timers' = {}) ]_vars


\* C23: while callState is dialing the transcript is exactly the one
\* 'Dialing ...' system message; in every in-progress or completed state
\* the first two messages are the system 'Dialing ...' message and the
\* system 'Call connected' message, so no agent or customer message comes
\* before 'Call connected', whatever the calls, restarts and timer firings.
IsDialingLine(m) ==
    m.role = "system" /\ m.text.tpl = "Dialing" /\ m.meta = StatusMeta

C23_TranscriptOpening ==
    /\ callState = "dialing"
          => (Len(messages) = 1 /\ IsDialingLine(messages[1]))
    /\ callState \in {"in-progress", "completed"}
          => /\ Len(messages) >= 2
             /\ IsDialingLine(messages[1])
             /\ messages[2] = createMessage("system", ConnectedText, StatusMeta)


\* C24: whenever callState is in-progress the call can still make progress
\* without Wrap up or Hang up: a timer is pending, or awaitingResponse is
\* true and the reply form is available (the auto-pilot toggle is off),
\* also after the toggle was switched during the call and after a restart.
ReplyFormAvailable == ~autoRespond /\ callState = "in-progress"

C24_InProgressCanAdvance ==
    callState = "in-progress"
        => (timers # {} \/ (awaitingResponse /\ ReplyFormAvailable))


\* C25: awaitingResponse is true only while callState is in-progress: in
\* every idle, dialing or completed state it is false (every way of ending
\* or resetting a call clears it).
C25_AwaitingOnlyInProgress ==
    awaitingResponse => callState = "in-progress"


\* C26: the timestamps agree with callState in every reachable state:
\* callStartedAt is null exactly when callState is idle, and callEndedAt is
\* non-null exactly when callState is completed.
C26_TimestampsMatchState ==
    /\ (callStartedAt = Null) <=> (callState = "idle")
    /\ (callEndedAt # Null) <=> (callState = "completed")

====
